---- MODULE Spec2Model ----
(***************************************************************************)
(* Turbie: a two-degree-of-freedom tower/blade model driven by a wind      *)
(* record.  The module models src/turbie_mod.py (parameter loading,        *)
(* system matrices, the per-case simulation and its statistics) and the    *)
(* batch loop of src/main.py.                                              *)
(*                                                                         *)
(* Floating-point numbers are modelled as exact rationals <<n, d>> with    *)
(* d > 0 and gcd(n, d) = 1; every non-finite float (nan, inf) is the one   *)
(* value NaN == <<0, 0>>, which every arithmetic operation propagates.     *)
(***************************************************************************)
EXTENDS Integers, Sequences, FiniteSets

(***************************************************************************)
(* State of a batch run (main.py)                                          *)
(***************************************************************************)
VARIABLES
    pc,           \* position of main.py
    param_file,   \* inputs/turbie_parameters.txt
    ct_file,      \* inputs/CT.txt
    wind_files,   \* the wind files of the directory, in processing order
    params,       \* tm.load_parameters(...)
    ct_tab,       \* tm.load_ct_file(...), the table behind ct_interp
    mats,         \* M, C, K
    file_i,       \* index of the wind file being processed
    wind_df,      \* tm.load_wind_file(wf)
    v_avg,        \* simulate_single_case: v_avg
    ct_avg,       \* simulate_single_case: ct_avg
    solver_y,     \* solver.y: the solver's current state
    sol_t,        \* sol.t: the samples' times so far
    sol_y,        \* sol.y: the samples' states so far
    status,       \* "idle", "running", "finished" (0) or "failed" (-1)
    stats,        \* the stats returned for the current case
    stats_rows,   \* main.py: stats_rows
    timeseries,   \* the timeseries files written, one per case
    summary,      \* the statistics table of the directory, once written
    err,          \* the exception that ended the run, "" if none
    probe         \* an interpolator under test: table, argument, value

vars == <<pc, param_file, ct_file, wind_files, params, ct_tab, mats, file_i,
          wind_df, v_avg, ct_avg, solver_y, sol_t, sol_y, status, stats, stats_rows,
          timeseries, summary, err, probe>>

inputs == <<param_file, ct_file, wind_files>>

shared == <<params, ct_tab, mats>>

case_vars == <<wind_df, v_avg, ct_avg, solver_y, sol_t, sol_y, status, stats>>

outputs == <<stats_rows, timeseries, summary>>

(***************************************************************************)
(* Rational arithmetic                                                     *)
(***************************************************************************)
Abs(i) == IF i < 0 THEN -i ELSE i

RECURSIVE Gcd(_, _)
Gcd(a, b) == IF b = 0 THEN a ELSE Gcd(b, a % b)

NaN == <<0, 0>>

IsFinite(r) == r[2] # 0

IsNaN(r) == r[2] = 0

RNorm(n, d) ==
    IF d = 0 THEN NaN
    ELSE LET g == Gcd(Abs(n), Abs(d))
             s == IF d < 0 THEN -1 ELSE 1
         IN  <<s * (n \div g), s * (d \div g)>>

R(i) == <<i, 1>>

Frac(n, d) == RNorm(n, d)

RAdd(a, b) ==
    IF IsNaN(a) \/ IsNaN(b) THEN NaN
    ELSE LET g == Gcd(a[2], b[2])
         IN  RNorm(a[1] * (b[2] \div g) + b[1] * (a[2] \div g), a[2] * (b[2] \div g))

RNeg(a) == IF IsNaN(a) THEN NaN ELSE <<-a[1], a[2]>>

RSub(a, b) == RAdd(a, RNeg(b))

RMul(a, b) ==
    IF IsNaN(a) \/ IsNaN(b) THEN NaN
    ELSE LET g1 == Gcd(Abs(a[1]), b[2])
             g2 == Gcd(Abs(b[1]), a[2])
         IN  RNorm((a[1] \div g1) * (b[1] \div g2), (a[2] \div g2) * (b[2] \div g1))

\* float division: x / 0 is non-finite
RDiv(a, b) ==
    IF IsNaN(a) \/ IsNaN(b) \/ b[1] = 0 THEN NaN
    ELSE RMul(a, RNorm(b[2], b[1]))

\* comparisons with a non-finite operand are false, as for nan
RLt(a, b) == IsFinite(a) /\ IsFinite(b) /\ a[1] * b[2] < b[1] * a[2]

RLe(a, b) == IsFinite(a) /\ IsFinite(b) /\ a[1] * b[2] <= b[1] * a[2]

RECURSIVE RSum(_)
RSum(s) == IF s = <<>> THEN R(0) ELSE RAdd(s[1], RSum(Tail(s)))

(***************************************************************************)
(* load_parameters: a parameter file is the map name -> value of its       *)
(* lines "<value> # <name>".                                               *)
(***************************************************************************)
EssentialKeys == {"mt", "mb", "k1", "k2", "c1", "c2", "A", "rho"}

\* parameters.setdefault("rho", 1.22)
RhoDefault == Frac(122, 100)

\* np.pi, to the rational 22/7
Pi == Frac(22, 7)

SetDefaultRho(p) ==
    IF "rho" \in DOMAIN p THEN p
    ELSE [k \in DOMAIN p \cup {"rho"} |-> IF k = "rho" THEN RhoDefault ELSE p[k]]

\* np.pi * (0.5 * Dr) ** 2
AreaOfDiameter(Dr) ==
    LET r == RMul(Frac(1, 2), Dr) IN RMul(Pi, RMul(r, r))

\* if "Dr" in parameters: parameters["A"] = ...
DeriveArea(p) ==
    IF "Dr" \in DOMAIN p
    THEN [k \in DOMAIN p \cup {"A"} |-> IF k = "A" THEN AreaOfDiameter(p["Dr"]) ELSE p[k]]
    ELSE p

load_parameters(file) ==
    LET parameters == DeriveArea(SetDefaultRho(file))
    IN  IF EssentialKeys \subseteq DOMAIN parameters
        THEN [ok |-> TRUE, val |-> parameters]
        ELSE [ok |-> FALSE, val |-> parameters]

(***************************************************************************)
(* build_system_matrices                                                   *)
(***************************************************************************)
\* the lower right stiffness entry without the coupling spring
build_system_matrices_k1(p) ==
    [M |-> << <<p["mt"], R(0)>>, <<R(0), p["mb"]>> >>,
     C |-> << <<p["c2"], RNeg(p["c2"])>>,
              <<RNeg(p["c2"]), RAdd(p["c1"], p["c2"])>> >>,
     K |-> << <<p["k2"], RNeg(p["k2"])>>,
              <<RNeg(p["k2"]), p["k1"]>> >>]

build_system_matrices(p) ==
    [M |-> << <<p["mt"], R(0)>>, <<R(0), p["mb"]>> >>,
     C |-> << <<p["c2"], RNeg(p["c2"])>>,
              <<RNeg(p["c2"]), RAdd(p["c1"], p["c2"])>> >>,
     K |-> << <<p["k2"], RNeg(p["k2"])>>,
              <<RNeg(p["k2"]), RAdd(p["k1"], p["k2"])>> >>]

(***************************************************************************)
(* Loaders: rows of numbers, sorted ascending by the first column          *)
(* (DataFrame.sort_values).  Non-finite keys sort last.                    *)
(***************************************************************************)
KeyLe(a, b) == IsNaN(b[1]) \/ RLe(a[1], b[1])

RECURSIVE InsertRow(_, _)
InsertRow(row, s) ==
    IF s = <<>> THEN <<row>>
    ELSE IF KeyLe(s[1], row) THEN <<s[1]>> \o InsertRow(row, Tail(s))
    ELSE <<row>> \o s

RECURSIVE SortRows(_)
SortRows(s) ==
    IF s = <<>> THEN <<>>
    ELSE InsertRow(s[Len(s)], SortRows(SubSeq(s, 1, Len(s) - 1)))

load_ct_file(file) == SortRows(file)

\* df.iloc[:, :2] of a file with at least 2 columns
FirstTwoColumns(rows) == [i \in 1..Len(rows) |-> <<rows[i][1], rows[i][2]>>]

load_wind_file(file) ==
    IF file.ncols < 2
    THEN [ok |-> FALSE, val |-> <<>>]
    ELSE [ok |-> TRUE, val |-> SortRows(FirstTwoColumns(file.rows))]

Column(df, c) == [i \in 1..Len(df) |-> df[i][c]]

(***************************************************************************)
(* scipy interp1d(x, y, kind="linear", fill_value="extrapolate"):          *)
(* searchsorted, clip to [1, n-1], the segment's line.                     *)
(***************************************************************************)
\* np.searchsorted(x, v): the number of entries below v (nan sorts last)
SearchSorted(x, v) ==
    IF IsNaN(v) THEN Len(x)
    ELSE Cardinality({i \in 1..Len(x) : RLt(x[i], v)})

\* ndarray.clip(lo, hi): min(max(i, lo), hi)
Clip(i, lo, hi) ==
    LET m == IF i < lo THEN lo ELSE i IN IF m > hi THEN hi ELSE m

\* x[i] with Python's wrap-around of an index below the first entry
PyIndex(i, n) == IF i < 1 THEN i + n ELSE i

\* the 1-based index of the upper sample of the segment used for v
SegmentHi(x, v) == Clip(SearchSorted(x, v), 1, Len(x) - 1) + 1

\* np.interp-like: the boundary value outside the sampled range
interp1d_clamped(x, y, v) ==
    LET hi == SegmentHi(x, v)
        lo == hi - 1
        slope == RDiv(RSub(y[hi], y[lo]), RSub(x[hi], x[lo]))
    IN  IF RLt(v, x[1]) THEN y[1]
        ELSE IF RLt(x[Len(x)], v) THEN y[Len(x)]
        ELSE RAdd(RMul(slope, RSub(v, x[lo])), y[lo])

interp1d(x, y, v) ==
    LET hi == SegmentHi(x, v)
        lo == PyIndex(hi - 1, Len(x))
        slope == RDiv(RSub(y[hi], y[lo]), RSub(x[hi], x[lo]))
    IN  RAdd(RMul(slope, RSub(v, x[lo])), y[lo])

(***************************************************************************)
(* simulate_single_case: the right-hand side and the solver                *)
(***************************************************************************)
\* float(wind_df["V"].mean()): pandas skips missing (nan) entries
SeriesMean(col) ==
    LET present == SelectSeq(col, IsFinite)
    IN  RDiv(RSum(present), R(Len(present)))

\* get_wind(t)
get_wind(df, t) == interp1d(Column(df, 1), Column(df, 2), t)

\* the force without the thrust coefficient
AeroForce_no_ct(p, ct, V) ==
    RMul(RMul(RMul(Frac(1, 2), p["rho"]), p["A"]), RMul(V, V))

\* Fa = 0.5 * rho * A * V**2 * ct_avg
AeroForce(p, ct, V) ==
    RMul(RMul(RMul(RMul(Frac(1, 2), p["rho"]), p["A"]), RMul(V, V)), ct)

\* rhs(t, y) with y = [xt, vt, xb, vb]
rhs(p, ct, df, t, yy) ==
    LET xt == yy[1]
        vt == yy[2]
        xb == yy[3]
        vb == yy[4]
        Fa == AeroForce(p, ct, get_wind(df, t))
        dv == RSub(vt, vb)
        dx == RSub(xt, xb)
        xt_dd == RDiv(RSub(RSub(Fa, RMul(p["c2"], dv)), RMul(p["k2"], dx)), p["mt"])
        xb_dd == RDiv(RSub(RSub(RAdd(RMul(p["c2"], dv), RMul(p["k2"], dx)),
                                RMul(p["c1"], vb)), RMul(p["k1"], xb)), p["mb"])
    IN  <<vt, xt_dd, vb, xb_dd>>

\* the state the solver was left in by the previous case
y0_stale == solver_y

\* y0 = np.zeros(4)
y0 == <<R(0), R(0), R(0), R(0)>>

VecFinite(v) == \A i \in 1..Len(v) : IsFinite(v[i])

\* a + h * b, componentwise
Axpy(a, h, b) == [i \in 1..4 |-> RAdd(a[i], RMul(h, b[i]))]

\* One explicit Runge-Kutta step of solve_ivp from grid time ta to tb
\* (two stages: the slopes at both ends of the step).
rk_step(p, ct, df, ta, tb, yy) ==
    LET h  == RSub(tb, ta)
        K1 == rhs(p, ct, df, ta, yy)
        K2 == rhs(p, ct, df, tb, Axpy(yy, h, K1))
    IN  Axpy(Axpy(yy, RMul(Frac(1, 2), h), K1), RMul(Frac(1, 2), h), K2)

\* solve_ivp's check of t_eval against t_span = (min, max) of the sorted
\* time column: strictly increasing when tf > t0, nothing when tf = t0
TEvalProperlySorted(t) ==
    t[Len(t)] = t[1] \/ \A i \in 1..(Len(t) - 1) : RLt(t[i], t[i + 1])

(***************************************************************************)
(* Statistics after the transient phase                                    *)
(***************************************************************************)
\* t_skip=60.0
t_skip == 60

\* mask = sol.t >= t_skip, as the selected indices
Mask(ts, skip) == {i \in 1..Len(ts) : RLe(R(skip), ts[i])}

RECURSIVE Selected(_, _, _)
Selected(col, mask, i) ==
    IF i > Len(col) THEN <<>>
    ELSE (IF i \in mask THEN <<col[i]>> ELSE <<>>) \o Selected(col, mask, i + 1)

\* a mean that is 0 for an empty selection
np_mean_empty_zero(xs) ==
    IF xs = <<>> THEN R(0) ELSE RDiv(RSum(xs), R(Len(xs)))

\* np.mean: sum / count (0 / 0 is nan for an empty selection)
np_mean(xs) == RDiv(RSum(xs), R(Len(xs)))

\* the sample variance (ddof = 1): sum(|x - mean|^2) / (N - 1)
np_var_ddof1(xs) ==
    LET m == np_mean(xs)
        sq == [i \in 1..Len(xs) |-> RMul(RSub(xs[i], m), RSub(xs[i], m))]
    IN  RDiv(RSum(sq), R(Len(xs) - 1))

\* the square of np.std (ddof = 0): mean(|x - mean|^2)
np_var(xs) ==
    LET m == np_mean(xs)
        sq == [i \in 1..Len(xs) |-> RMul(RSub(xs[i], m), RSub(xs[i], m))]
    IN  np_mean(sq)

\* A standard deviation is kept as its square; NaN stays NaN.
case_stats(ts, ys, skip, va, ca) ==
    LET mask == Mask(ts, skip)
        xt == Selected(Column(ys, 1), mask, 1)
        xb == Selected(Column(ys, 3), mask, 1)
    IN  [V_avg |-> va, CT_avg |-> ca,
         xt_mean |-> np_mean(xt), xt_std_sq |-> np_var(xt),
         xb_mean |-> np_mean(xb), xb_std_sq |-> np_var(xb)]

(***************************************************************************)
(* save_timeseries: one row per sample, float_format="%.6f"                *)
(***************************************************************************)
DecimalPlaces == 6

\* k decimal digits of rem / d by long division: <<digits, remainder>>
RECURSIVE LongDiv(_, _, _, _)
LongDiv(rem, d, k, acc) ==
    IF k = 0 THEN <<acc, rem>>
    ELSE LongDiv((rem * 10) % d, d, k - 1, acc * 10 + ((rem * 10) \div d))

RECURSIVE Pow10(_)
Pow10(k) == IF k = 0 THEN 1 ELSE 10 * Pow10(k - 1)

\* "%.6f" % r: sign, integer part and the rounded fraction in units of 1e-6
\* (round half to even); a missing value is written as an empty field
Fmt6(r) ==
    IF IsNaN(r) THEN [nan |-> TRUE, neg |-> FALSE, ip |-> 0, frac |-> 0]
    ELSE LET a    == Abs(r[1])
             d    == r[2]
             q    == LongDiv(a % d, d, DecimalPlaces, 0)
             up   == 2 * q[2] > d \/ (2 * q[2] = d /\ q[1] % 2 = 1)
             f    == IF up THEN q[1] + 1 ELSE q[1]
             cy   == f = Pow10(DecimalPlaces)
             ip   == IF cy THEN (a \div d) + 1 ELSE a \div d
             fr   == IF cy THEN 0 ELSE f
         IN  [nan |-> FALSE, neg |-> r[1] < 0, ip |-> ip, frac |-> fr]

\* the rows "Time(s) xt(m) vt(m/s) xb(m) vb(m/s)" of the written file
save_timeseries(ts, ys) ==
    [i \in 1..Len(ts) |->
        <<Fmt6(ts[i]), Fmt6(ys[i][1]), Fmt6(ys[i][2]), Fmt6(ys[i][3]), Fmt6(ys[i][4])>>]

(***************************************************************************)
(* Inputs: the files under inputs/                                         *)
(***************************************************************************)
MaxParam == 2
MaxLen == 3
MaxCases == 2

CoreKeys == {"mt", "mb", "k1", "k2", "c1", "c2"}

OptionalValue == [A |-> R(3), rho |-> R(2), Dr |-> R(2)]

OptionalParts == {[k \in S |-> OptionalValue[k]] : S \in SUBSET {"A", "rho", "Dr"}}

Merge(f, g) == [k \in DOMAIN f \cup DOMAIN g |-> IF k \in DOMAIN g THEN g[k] ELSE f[k]]

Restrict(f, S) == [k \in S |-> f[k]]

CoreFiles == [CoreKeys -> {R(v) : v \in 1..MaxParam}]

\* every parameter file: all six core values with any optional part, and
\* files that lack one core value
ParamFiles ==
    {Merge(c, o) : c \in CoreFiles, o \in OptionalParts}
    \cup {Restrict(c, CoreKeys \ {k}) : c \in {[j \in CoreKeys |-> R(1)]}, k \in CoreKeys}

CoreA == [k \in CoreKeys |-> R(1)]

CoreB == [mt |-> R(2), mb |-> R(1), k1 |-> R(2), k2 |-> R(1), c1 |-> R(1), c2 |-> R(2)]

\* the parameter files of the batch runs
BatchParamFiles ==
    {Merge(CoreA, Restrict(OptionalValue, {"A", "rho"})),
     Merge(CoreB, OptionalValue),
     Merge(CoreA, Restrict(OptionalValue, {"rho"}))}

\* CT.txt: rows <<V, CT>>, in file order
CtFiles ==
    {<< <<R(2), R(1)>>, <<R(1), R(2)>> >>,
     << <<R(0), R(0)>>, <<R(2), R(0)>> >>}

TimeStamps == {R(58), R(59), R(60), R(61)}

WindSpeeds == {R(0), R(1), NaN}

SeqsOf(S, n) == [1..n -> S]

StrictlyIncreasing(t) == \A i \in 1..(Len(t) - 1) : RLt(t[i], t[i + 1])

NonDecreasing(t) == \A i \in 1..(Len(t) - 1) : RLe(t[i], t[i + 1])

Reverse(s) == [i \in 1..Len(s) |-> s[Len(s) + 1 - i]]

Rows(t, v) == [i \in 1..Len(t) |-> <<t[i], v[i]>>]

\* wind files with strictly increasing time stamps and any speeds
RegularWindFiles ==
    UNION {{[ncols |-> 2, rows |-> Rows(t, v)] :
               t \in {u \in SeqsOf(TimeStamps, n) : StrictlyIncreasing(u)},
               v \in SeqsOf(WindSpeeds, n)} : n \in 0..MaxLen}

\* wind files with repeated time stamps or rows out of order, speed 1
IrregularWindFiles ==
    UNION {{[ncols |-> 2, rows |-> Rows(t, [i \in 1..n |-> R(1)])] :
               t \in {u \in SeqsOf(TimeStamps, n) :
                         /\ ~StrictlyIncreasing(u)
                         /\ NonDecreasing(u) \/ StrictlyIncreasing(Reverse(u))}} :
           n \in 2..MaxLen}

\* a file with a single column
OneColumnFile == [ncols |-> 1, rows |-> << <<R(59)>>, <<R(60)>> >>]

WindFiles == RegularWindFiles \cup IrregularWindFiles \cup {OneColumnFile}

\* the files that may precede the last file of a directory
EarlierWindFiles ==
    {[ncols |-> 2, rows |-> << <<R(59), R(1)>>, <<R(60), R(1)>>, <<R(61), v>> >>] :
        v \in {R(1), NaN}}

Directories ==
    UNION {{h \o <<w>> : h \in SeqsOf(EarlierWindFiles, n), w \in WindFiles} :
           n \in 0..(MaxCases - 1)}

NoStats ==
    [V_avg |-> NaN, CT_avg |-> NaN, xt_mean |-> NaN, xt_std_sq |-> NaN,
     xb_mean |-> NaN, xb_std_sq |-> NaN]

NoProbe == [x |-> <<>>, y |-> <<>>, v |-> NaN, out |-> NaN, done |-> FALSE]

InitState ==
    /\ pc = "start"
    /\ params = <<>>
    /\ ct_tab = <<>>
    /\ mats = <<>>
    /\ file_i = 1
    /\ wind_df = <<>>
    /\ v_avg = NaN
    /\ ct_avg = NaN
    /\ solver_y = <<R(0), R(0), R(0), R(0)>>
    /\ sol_t = <<>>
    /\ sol_y = <<>>
    /\ status = "idle"
    /\ stats = NoStats
    /\ stats_rows = <<>>
    /\ timeseries = <<>>
    /\ summary = <<>>
    /\ err = ""

Init ==
    /\ InitState
    /\ param_file \in BatchParamFiles
    /\ ct_file \in CtFiles
    /\ wind_files \in Directories
    /\ probe = NoProbe

Raise(e) ==
    /\ pc' = "aborted"
    /\ err' = e

\* main.py 16: params = tm.load_parameters(...)
LoadParameters ==
    /\ pc = "start"
    /\ LET r == load_parameters(param_file)
       IN  IF r.ok
           THEN /\ params' = r.val
                /\ pc' = "params"
                /\ err' = err
           ELSE /\ Raise("ValueError: Missing parameter")
                /\ params' = params
    /\ UNCHANGED <<inputs, ct_tab, mats, file_i, case_vars, outputs, probe>>

\* main.py 17-18: ct_tab, ct_interp
LoadCt ==
    /\ pc = "params"
    /\ ct_tab' = load_ct_file(ct_file)
    /\ pc' = "ct"
    /\ UNCHANGED <<inputs, params, mats, file_i, case_vars, outputs, err, probe>>

\* main.py 21: M, C, K = tm.build_system_matrices(params)
BuildMatrices ==
    /\ pc = "ct"
    /\ mats' = build_system_matrices(params)
    /\ pc' = "loop"
    /\ UNCHANGED <<inputs, params, ct_tab, file_i, case_vars, outputs, err, probe>>

\* main.py 44: wind_df = tm.load_wind_file(wf)
LoadWind ==
    /\ pc = "loop"
    /\ file_i <= Len(wind_files)
    /\ LET r == load_wind_file(wind_files[file_i])
       IN  IF r.ok
           THEN /\ wind_df' = r.val
                /\ pc' = "loaded"
                /\ err' = err
           ELSE /\ Raise("ValueError: Wind file must have at least 2 columns")
                /\ wind_df' = wind_df
    /\ UNCHANGED <<inputs, shared, file_i, v_avg, ct_avg, solver_y, sol_t, sol_y,
                   status, stats, outputs, probe>>

\* simulate_single_case 70-92, up to the solver's first step: the averages,
\* the wind interpolator (interp1d refuses an empty record; a record of one
\* row is refused by it or, failing that, ends in Statistics' error), and
\* solve_ivp's argument checks
SimulateStart ==
    /\ pc = "loaded"
    /\ v_avg' = SeriesMean(Column(wind_df, 2))
    /\ ct_avg' = interp1d(Column(ct_tab, 1), Column(ct_tab, 2), v_avg')
    /\ IF Len(wind_df) = 0
       THEN /\ Raise("ValueError: x and y arrays must have at least 1 entries")
            /\ UNCHANGED <<solver_y, sol_t, sol_y, status>>
       ELSE IF ~TEvalProperlySorted(Column(wind_df, 1))
       THEN /\ Raise("ValueError: Values in t_eval are not properly sorted")
            /\ UNCHANGED <<solver_y, sol_t, sol_y, status>>
       ELSE /\ solver_y' = y0
            /\ sol_t' = <<>>
            /\ sol_y' = <<>>
            /\ status' = "running"
            /\ pc' = "solving"
            /\ err' = err
    /\ UNCHANGED <<inputs, shared, file_i, wind_df, stats, outputs, probe>>

\* the grid index the solver has reached
SolverPos == IF sol_t = <<>> THEN 1 ELSE Len(sol_t)

\* The solver lands on grid point j only if it is t_bound (the step is cut
\* to it) or the wind beyond it is finite: the steps towards a point that
\* borders a non-finite segment are rejected until the step size underflows.
CanLandOn(df, j) == j = Len(df) \/ IsFinite(df[j + 1][2])

\* One iteration of solve_ivp's loop over the next grid interval; the
\* samples the solver passed are appended (the first one after the first
\* accepted step).  With t_bound = t0 the solver is finished at once,
\* without a sample.  A step whose result is not finite is never accepted
\* and the step size underflows: status -1, the loop is left.
SolverStep ==
    /\ pc = "solving"
    /\ status = "running"
    /\ LET t    == Column(wind_df, 1)
           n    == Len(t)
           i    == SolverPos
       IN  IF t[n] = t[1]
           THEN /\ status' = "finished"
                /\ UNCHANGED <<solver_y, sol_t, sol_y>>
           ELSE LET ynew == rk_step(params, ct_avg, wind_df, t[i], t[i + 1], solver_y)
                IN  IF ~VecFinite(ynew)
                    THEN /\ status' = "failed"
                         /\ UNCHANGED <<solver_y, sol_t, sol_y>>
                    ELSE IF ~CanLandOn(wind_df, i + 1)
                    THEN /\ status' = "failed"
                         /\ solver_y' = ynew
                         /\ sol_t' = IF sol_t = <<>> THEN <<t[1]>> ELSE sol_t
                         /\ sol_y' = IF sol_t = <<>> THEN <<solver_y>> ELSE sol_y
                    ELSE /\ solver_y' = ynew
                         /\ sol_t' = IF sol_t = <<>> THEN <<t[1], t[2]>>
                                     ELSE Append(sol_t, t[i + 1])
                         /\ sol_y' = IF sol_t = <<>> THEN <<solver_y, ynew>>
                                     ELSE Append(sol_y, ynew)
                         /\ status' = IF i + 1 = n THEN "finished" ELSE "running"
    /\ UNCHANGED <<pc, inputs, shared, file_i, wind_df, v_avg, ct_avg, stats,
                   outputs, err, probe>>

\* a comparison that accepts an empty sol.t
MaskRaises_never(ts) == FALSE

\* sol.t >= t_skip raises when sol.t is the empty list that solve_ivp
\* returns when no sample was produced
MaskRaises(ts) == ts = <<>>

MaskTypeError == "TypeError: '>=' not supported between 'list' and 'float'"

\* simulate_single_case 94-104: sol.success is not looked at
Statistics ==
    /\ pc = "solving"
    /\ status \in {"finished", "failed"}
    /\ IF MaskRaises(sol_t)
       THEN /\ Raise(MaskTypeError)
            /\ stats' = stats
       ELSE /\ stats' = case_stats(sol_t, sol_y, t_skip, v_avg, ct_avg)
            /\ pc' = "returned"
            /\ err' = err
    /\ UNCHANGED <<inputs, shared, file_i, wind_df, v_avg, ct_avg, solver_y, sol_t,
                   sol_y, status, outputs, probe>>

\* round(x): to the nearest integer, halves to even
PyRound(r) ==
    LET fl == r[1] \div r[2]
        tw == 2 * (r[1] - fl * r[2])
    IN  IF tw < r[2] THEN fl
        ELSE IF tw > r[2] THEN fl + 1
        ELSE IF fl % 2 = 0 THEN fl ELSE fl + 1

WriteFile(files, name, content) ==
    [k \in DOMAIN files \cup {name} |-> IF k = name THEN content ELSE files[k]]

\* main.py 48-50: timeseries_v{v_int}.txt and stats_rows.append(stats)
SaveCase ==
    /\ pc = "returned"
    /\ IF IsNaN(stats.V_avg)
       THEN /\ Raise("ValueError: cannot convert float NaN to integer")
            /\ UNCHANGED <<file_i, outputs>>
       ELSE /\ timeseries' = WriteFile(timeseries, PyRound(stats.V_avg),
                                       save_timeseries(sol_t, sol_y))
            /\ stats_rows' = Append(stats_rows, stats)
            /\ file_i' = file_i + 1
            /\ pc' = "loop"
            /\ UNCHANGED <<summary, err>>
    /\ UNCHANGED <<inputs, shared, case_vars, probe>>

\* main.py 72-73: the statistics table, sorted by V_avg
SortedByVavg(rows) ==
    LET keyed == [i \in 1..Len(rows) |-> <<rows[i].V_avg, rows[i]>>]
        srt   == SortRows(keyed)
    IN  [i \in 1..Len(srt) |-> srt[i][2]]

WriteSummary ==
    /\ pc = "loop"
    /\ file_i > Len(wind_files)
    /\ IF stats_rows = <<>>
       THEN /\ Raise("KeyError: 'V_avg'")
            /\ summary' = summary
       ELSE /\ summary' = SortedByVavg(stats_rows)
            /\ pc' = "done"
            /\ err' = err
    /\ UNCHANGED <<inputs, shared, file_i, case_vars, stats_rows, timeseries, probe>>

Next ==
    \/ LoadParameters
    \/ LoadCt
    \/ BuildMatrices
    \/ LoadWind
    \/ SimulateStart
    \/ SolverStep
    \/ Statistics
    \/ SaveCase
    \/ WriteSummary

Spec == Init /\ [][Next]_vars

(***************************************************************************)
(* Parameter loading and matrix building over every parameter file         *)
(***************************************************************************)
InitParams ==
    /\ InitState
    /\ param_file \in ParamFiles
    /\ ct_file \in CtFiles
    /\ wind_files = <<>>
    /\ probe = NoProbe

NextParams ==
    \/ LoadParameters
    \/ LoadCt
    \/ BuildMatrices

SpecParams == InitParams /\ [][NextParams]_vars

(***************************************************************************)
(* An interpolator (ct_interp, get_wind) evaluated at one argument         *)
(***************************************************************************)
ProbeXs == {R(0), R(1), R(3), R(4)}

ProbeYs == {R(0), R(2), R(-1)}

ProbeArgs == {Frac(k, 2) : k \in -4..10}

InitInterp ==
    /\ InitState
    /\ param_file = CoreA
    /\ ct_file = <<>>
    /\ wind_files = <<>>
    /\ \E n \in 2..MaxLen :
         \E x \in {u \in SeqsOf(ProbeXs, n) : StrictlyIncreasing(u)} :
           \E yv \in SeqsOf(ProbeYs, n) :
             \E v \in ProbeArgs :
               probe = [x |-> x, y |-> yv, v |-> v, out |-> NaN, done |-> FALSE]

\* ct_interp(v_avg), get_wind(t)
Evaluate ==
    /\ ~probe.done
    /\ probe' = [probe EXCEPT !.out = interp1d(probe.x, probe.y, probe.v),
                              !.done = TRUE]
    /\ UNCHANGED <<pc, inputs, shared, file_i, case_vars, outputs, err>>

NextInterp == Evaluate

SpecInterp == InitInterp /\ [][NextInterp]_vars

(***************************************************************************)
(* Claims                                                                  *)
(***************************************************************************)
\* the point <<v, out>> lies on the line through samples i and i + 1
OnSegmentLine(i) ==
    RMul(RSub(probe.out, probe.y[i]), RSub(probe.x[i + 1], probe.x[i]))
      = RMul(RSub(probe.v, probe.x[i]), RSub(probe.y[i + 1], probe.y[i]))

\* C3: an interpolator built from at least 2 sorted points returns, inside
\* the sampled range, the linear interpolation between the bracketing
\* samples, and outside it the extrapolation along the nearest boundary
\* segment; the value is always finite (no error) and is not the clamped
\* boundary value.
C3_LinearInterpolationAndExtrapolation ==
    probe.done =>
        LET n == Len(probe.x)
        IN  /\ IsFinite(probe.out)
            /\ \A i \in 1..(n - 1) :
                 RLe(probe.x[i], probe.v) /\ RLe(probe.v, probe.x[i + 1])
                     => OnSegmentLine(i)
            /\ RLt(probe.v, probe.x[1]) => OnSegmentLine(1)
            /\ RLt(probe.x[n], probe.v) => OnSegmentLine(n - 1)

\* C3 witness: an argument above the last sample, extrapolated along a
\* sloping last segment to a value that is not the boundary value
C3_Witness ==
    /\ probe.done
    /\ Len(probe.x) = 3
    /\ RLt(probe.x[3], probe.v)
    /\ probe.y[2] # probe.y[3]
    /\ probe.out # probe.y[3]

\* C9: build_system_matrices returns M = diag(mt, mb),
\* C = [[c2, -c2], [-c2, c1+c2]] and K = [[k2, -k2], [-k2, k1+k2]] and
\* leaves the parameters unchanged; C and K are symmetric and their first
\* rows sum to zero.
C9_SystemMatrices ==
    pc = "loop" =>
        /\ params = load_parameters(param_file).val
        /\ mats.M = << <<params["mt"], R(0)>>, <<R(0), params["mb"]>> >>
        /\ \A X \in {<<mats.C, "c1", "c2">>, <<mats.K, "k1", "k2">>} :
             LET m == X[1]
                 a == params[X[2]]
                 b == params[X[3]]
             IN  /\ m[1][1] = b
                 /\ m[1][2] = m[2][1]
                 /\ RAdd(m[1][1], m[1][2]) = R(0)
                 /\ RSub(m[2][2], b) = a

\* C9 witness: matrices built from parameters that differ from one another
C9_Witness ==
    /\ pc = "loop"
    /\ params["c1"] # params["c2"]
    /\ params["k1"] # params["k2"]
    /\ params["mt"] # params["mb"]
    /\ mats.K[2][2] = R(3)

\* C7: load_parameters derives A from Dr only if A is absent (an explicit A
\* is kept when Dr is also present), and rho is set to the default only
\* when the file gives no rho.
C7_ExplicitAreaKept ==
    pc = "params" =>
        /\ "A" \in DOMAIN param_file => params["A"] = param_file["A"]
        /\ "rho" \in DOMAIN param_file => params["rho"] = param_file["rho"]
        /\ "rho" \notin DOMAIN param_file => params["rho"] = RhoDefault

\* the indices of the samples with t >= t_skip
Qualifying == {i \in 1..Len(sol_t) : sol_t[i][1] >= t_skip * sol_t[i][2]}

RECURSIVE SumOver(_, _)
SumOver(S, col) ==
    IF S = {} THEN R(0)
    ELSE LET i == CHOOSE j \in S : TRUE
         IN  RAdd(col[i], SumOver(S \ {i}, col))

Squares(col) == [i \in 1..Len(col) |-> RMul(col[i], col[i])]

\* m is the arithmetic mean and v the population variance of col over the
\* qualifying samples: N m = sum x and N^2 v = N sum x^2 - (sum x)^2
MeanAndVarianceOver(col, m, v) ==
    LET N  == Cardinality(Qualifying)
        S1 == SumOver(Qualifying, col)
        S2 == SumOver(Qualifying, Squares(col))
    IN  /\ RMul(R(N), m) = S1
        /\ RMul(R(N * N), v) = RSub(RMul(R(N), S2), RMul(S1, S1))

\* C2: when at least one sample has t >= t_skip, xt_mean and xb_mean are the
\* arithmetic means and xt_std and xb_std the population standard
\* deviations (divide by N) of xt and xb over exactly the samples with
\* t >= t_skip.
C2_StatisticsOverQualifyingSamples ==
    pc = "returned" /\ Qualifying # {} =>
        /\ MeanAndVarianceOver(Column(sol_y, 1), stats.xt_mean, stats.xt_std_sq)
        /\ MeanAndVarianceOver(Column(sol_y, 3), stats.xb_mean, stats.xb_std_sq)

\* C2 witness: a returned case in which some samples are skipped, at least
\* two qualify and the tower displacement varies over them
C2_Witness ==
    /\ pc = "returned"
    /\ Cardinality(Qualifying) >= 2
    /\ Cardinality(Qualifying) < Len(sol_t)
    /\ IsFinite(stats.xt_std_sq)
    /\ stats.xt_std_sq # R(0)

\* C8: when a case has samples but none with t >= t_skip, it returns
\* without raising (the only error of the statistics step is the one for a
\* run without any sample); V_avg and CT_avg are defined, the four
\* displacement statistics are not-a-number, and the trajectory is handed
\* back whole, not cut by the filter: every sample the solver produced,
\* which is every time stamp of the record when the solver completed.
C8_EmptyFilterGivesNaN ==
    /\ pc = "returned" /\ Qualifying = {} =>
          /\ IsFinite(stats.V_avg) /\ IsFinite(stats.CT_avg)
          /\ IsNaN(stats.xt_mean) /\ IsNaN(stats.xt_std_sq)
          /\ IsNaN(stats.xb_mean) /\ IsNaN(stats.xb_std_sq)
          /\ sol_t # <<>> /\ Len(sol_y) = Len(sol_t)
          /\ status = "finished" => sol_t = Column(wind_df, 1)
    /\ pc = "aborted" /\ err = MaskTypeError => sol_t = <<>>

\* C8 witness: a completed run over a record that ends before t_skip
C8_Witness ==
    /\ pc = "returned"
    /\ status = "finished"
    /\ Len(sol_t) >= 2
    /\ Qualifying = {}
    /\ IsNaN(stats.xt_mean)

ZeroState == <<R(0), R(0), R(0), R(0)>>

\* fewer than 2 time points, or t_max <= t_min
InvalidTimeSpan(df) == Len(df) < 2 \/ ~RLt(df[1][1], df[Len(df)][1])

\* the force is zero at every time of the record's span: finite wind speeds
\* that are all zero, or a zero thrust coefficient
ZeroForcing ==
    /\ ~InvalidTimeSpan(wind_df)
    /\ \A i \in 1..Len(wind_df) : IsFinite(wind_df[i][2])
    /\ ct_avg = R(0) \/ \A i \in 1..Len(wind_df) : wind_df[i][2] = R(0)

\* C4: with zero forcing and y0 = [0,0,0,0] the state derivative at the
\* origin is zero and every sample of the trajectory is exactly zero.
C4_ZeroForcingStaysAtRest ==
    pc \in {"solving", "returned"} /\ ZeroForcing =>
        /\ solver_y = ZeroState
        /\ \A i \in 1..Len(sol_y) : sol_y[i] = ZeroState
        /\ \A i \in 1..Len(wind_df) :
             rhs(params, ct_avg, wind_df, wind_df[i][1], ZeroState) = ZeroState

\* C4 witness: a completed run with a zero thrust coefficient and wind
C4_Witness ==
    /\ pc = "returned"
    /\ ZeroForcing
    /\ Len(sol_t) = 3
    /\ \E i \in 1..Len(wind_df) : wind_df[i][2] # R(0)

C6_DivergedRunRaises ==
    status = "failed" => pc \in {"solving", "aborted"}

\* C1: the returned trajectory has exactly the wind record's time stamps, in
\* order, and four state components at every sample.
C1_TrajectoryOnInputGrid ==
    pc = "returned" =>
        /\ sol_t = Column(wind_df, 1)
        /\ Len(sol_y) = Len(sol_t)
        /\ \A i \in 1..Len(sol_y) : Len(sol_y[i]) = 4

\* The trajectory of a record as a function of the explicit inputs alone:
\* the solver's steps from the zero state over the record's grid.
RECURSIVE TrajectoryOf(_, _, _, _, _, _)
TrajectoryOf(p, ct, df, yy, ts, ys) ==
    LET t == Column(df, 1)
        n == Len(t)
        i == IF ts = <<>> THEN 1 ELSE Len(ts)
    IN  IF t[n] = t[1] THEN [t |-> ts, y |-> ys]
        ELSE LET ynew == rk_step(p, ct, df, t[i], t[i + 1], yy)
             IN  IF ~VecFinite(ynew) THEN [t |-> ts, y |-> ys]
                 ELSE IF i + 1 < n /\ IsNaN(df[i + 2][2])
                 THEN (IF ts = <<>> THEN [t |-> <<t[1]>>, y |-> <<yy>>]
                       ELSE [t |-> ts, y |-> ys])
                 ELSE LET ts2 == IF ts = <<>> THEN <<t[1], t[2]>> ELSE Append(ts, t[i + 1])
                          ys2 == IF ts = <<>> THEN <<yy, ynew>> ELSE Append(ys, ynew)
                      IN  IF i + 1 = n THEN [t |-> ts2, y |-> ys2]
                          ELSE TrajectoryOf(p, ct, df, ynew, ts2, ys2)

\* C10: the trajectory and statistics of a case are a function of the
\* parameters, the thrust table, the case's wind record and t_skip alone,
\* whatever cases were processed before it; no case changes the shared
\* parameters, matrices or thrust table, or its own wind record.
C10_CaseIsPureFunctionOfInputs ==
    LET p   == load_parameters(param_file).val
        tab == load_ct_file(ct_file)
    IN  /\ pc \in {"loop", "loaded", "solving", "returned", "done"} =>
              /\ params = p
              /\ ct_tab = tab
              /\ mats = build_system_matrices(p)
        /\ pc = "returned" =>
              LET df == load_wind_file(wind_files[file_i]).val
                  va == SeriesMean(Column(df, 2))
                  ca == interp1d(Column(tab, 1), Column(tab, 2), va)
                  tr == TrajectoryOf(p, ca, df, ZeroState, <<>>, <<>>)
              IN  /\ wind_df = df
                  /\ sol_t = tr.t
                  /\ sol_y = tr.y
                  /\ stats = case_stats(tr.t, tr.y, t_skip, va, ca)

\* C10 witness: a second case returns a moving trajectory after a first
\* case that left the solver in a non-zero state
C10_Witness ==
    /\ pc = "returned"
    /\ file_i = 2
    /\ Len(stats_rows) = 1
    /\ stats_rows[1].xt_mean # R(0)
    /\ Len(sol_t) = 3
    /\ sol_y[3] # ZeroState

====
